---- MODULE Spec2Model ----
(***************************************************************************)
(* pod-restarter-go: the reconciliation loop of main.go and the cluster    *)
(* helpers of package kubernetes (KubeClient).                              *)
(*                                                                         *)
(* The cluster is a map from (namespace, name) to Pod objects plus a list  *)
(* of Events; the program is the loop of main(): build the client,        *)
(* GenerateToBeDeletedPodList, grace sleep, PodChecks / DeletePod for      *)
(* every entry of the candidate map, interval sleep, counter increment.    *)
(***************************************************************************)
EXTENDS Integers, Sequences, FiniteSets, TLC

VARIABLES
    pods,            \* cluster: [existing (namespace, name) keys -> Pod object]
    events,          \* cluster: sequence of Event objects, in list order
    pc,              \* position of main() in its loop
    counter,         \* main.go: counter
    uniquePodList,   \* main.go: uniquePodList, a map PodName -> PodNamespace
    todo,            \* keys of uniquePodList the range loop has not visited yet
    cur,             \* the map key (pod name) between PodChecks and DeletePod
    dryRunMode,      \* flag --dry-run
    namespace,       \* flag --namespace ("" = all namespaces)
    pollingInterval, \* flag --polling-interval (seconds)
    now,             \* wall clock (seconds)
    faults,          \* number of failing cluster calls so far
    envSteps,        \* number of cluster-side changes so far
    lastCheck,       \* history: the most recent PodChecks call
    lastDelete,      \* history: the most recent DeletePod call
    okd,             \* history: keys PodChecks accepted in this iteration
    rejected,        \* history: keys PodChecks rejected in this iteration
    deleteCalls,     \* history: keys DeletePod was called for in this iteration
    accepted,        \* history: UIDs whose delete request the cluster accepted
    logged,          \* history: what main() printed last for a candidate
    found,           \* history: the lists GenerateToBeDeletedPodList went through
    past             \* history: the earlier discovery passes, the failed deletes

vars == <<pods, events, pc, counter, uniquePodList, todo, cur, dryRunMode,
          namespace, pollingInterval, now, faults, envSteps, lastCheck,
          lastDelete, okd, rejected, deleteCalls, accepted, logged, found,
          past>>

(***************************************************************************)
(* Bounds of the model.                                                    *)
(***************************************************************************)
MaxEvents == 3       \* longest Event list GenerateToBeDeletedPodList is run on
MaxContainers == 2   \* longest ContainerStatuses list
MaxIter == 2         \* loop passes explored (counter stops growing there)
MaxTroubles == 1     \* failing cluster calls plus cluster-side changes per run

Keys == {<<"default", "foo">>, <<"default", "bar">>, <<"kube", "foo">>}
Phases == {"Pending", "Running", "Succeeded", "Failed", "Unknown", ""}
OwnerLists == {<<>>, <<"ReplicaSet">>}

\* main.go:27  healTime time.Duration = 5
healTime == 5

SeqsUpTo(S, n) == UNION {[1..k -> S] : k \in 0..n}

(***************************************************************************)
(* Pod objects as the API server holds them (v1.Pod, the fields read).     *)
(***************************************************************************)
NotTerminated == [Terminated |-> FALSE, Reason |-> "", ExitCode |-> 0]

ContainerStates ==
    {NotTerminated} \cup
    {[Terminated |-> TRUE, Reason |-> r, ExitCode |-> x] :
        r \in {"Completed", "Error"}, x \in {0, 2}}

PodObjects(uids) ==
    [UID : uids,
     Phase : Phases,
     ContainerStatuses : SeqsUpTo(ContainerStates, MaxContainers),
     OwnerReferences : OwnerLists,
     DeletionTimestamp : {"nil", "set"}]

\* the zero value of v1.Pod / PodDetails
ZeroPod == [UID |-> "", Phase |-> "", ContainerStatuses |-> <<>>,
            OwnerReferences |-> <<>>, DeletionTimestamp |-> "nil"]

(***************************************************************************)
(* Cluster Facade: the answers api.Pods(ns).Get and .Delete can give.      *)
(* A failing call is drawn only while the budget of troubles lasts.       *)
(***************************************************************************)
Budget == faults + envSteps < MaxTroubles

GetResponses_FromEvent(key) ==
    {[err |-> "nil",
      item |-> [ZeroPod EXCEPT !.Phase = "Pending",
                               !.OwnerReferences = <<"ReplicaSet">>]]}

GetResponses(key) ==
    (IF key \in DOMAIN pods
        THEN {[err |-> "nil", item |-> pods[key]]}
        ELSE {[err |-> "NotFound", item |-> ZeroPod]})
    \cup
    (IF Budget
        THEN {[err |-> e, item |-> ZeroPod] : e \in {"StatusError", "OtherError"}}
        ELSE {})

Failed(resp) == resp.err \notin {"nil", "NotFound"}

(***************************************************************************)
(* kubernetes package: GetPodDetails and the three verify* methods.        *)
(***************************************************************************)
GetPodDetails_NotFoundOk(resp) ==
    IF resp.err = "StatusError"
        THEN [err |-> "FetchFailedStatus", podData |-> ZeroPod]
    ELSE IF resp.err \notin {"nil", "NotFound"}
        THEN [err |-> "FetchFailedOther", podData |-> ZeroPod]
    ELSE [err |-> "nil",
          podData |-> [resp.item EXCEPT !.DeletionTimestamp = "nil"]]

\* part_004:169-204. IsNotFound, then *StatusError, then any other error;
\* the PodDetails literal copies UID, names, Phase, ContainerStatuses,
\* OwnerReferences and CreationTimestamp: DeletionTimestamp keeps its zero
\* value (nil).
GetPodDetails(resp) ==
    IF resp.err = "NotFound" THEN [err |-> "Gone", podData |-> ZeroPod]
    ELSE IF resp.err = "StatusError"
        THEN [err |-> "FetchFailedStatus", podData |-> ZeroPod]
    ELSE IF resp.err # "nil"
        THEN [err |-> "FetchFailedOther", podData |-> ZeroPod]
    ELSE [err |-> "nil",
          podData |-> [UID |-> resp.item.UID,
                       Phase |-> resp.item.Phase,
                       ContainerStatuses |-> resp.item.ContainerStatuses,
                       OwnerReferences |-> resp.item.OwnerReferences,
                       DeletionTimestamp |-> "nil"]]

VerifyPodHasOwner_Always(p) == "nil"

\* part_004:368-377
VerifyPodHasOwner(p) ==
    IF Len(p.OwnerReferences) > 0 THEN "nil" ELSE "NoOwner"

\* part_004:380-390
VerifyPodScheduledToBeDeleted(p) ==
    IF p.DeletionTimestamp # "nil" THEN "AlreadyDeleting" ELSE "nil"

ContainersLoop_FirstOnly(cs) ==
    IF cs = <<>> THEN "nil"
    ELSE IF ~cs[1].Terminated THEN "nil"
    ELSE IF cs[1].Reason = "Completed" /\ cs[1].ExitCode = 0 THEN "nil"
    ELSE "RunningWithIssues"

\* part_004:299-312, the range over p.ContainerStatuses
RECURSIVE ContainersLoop(_)
ContainersLoop(cs) ==
    IF cs = <<>> THEN "nil"
    ELSE IF ~cs[1].Terminated THEN ContainersLoop(Tail(cs))
    ELSE IF cs[1].Reason = "Completed" /\ cs[1].ExitCode = 0
        THEN ContainersLoop(Tail(cs))
    ELSE "RunningWithIssues"

VerifyPodStatus_PendingHealthy(p) ==
    CASE p.Phase = "Pending" -> "nil"
      [] p.Phase = "Running" ->
            IF Len(p.ContainerStatuses) # 0
                THEN ContainersLoop(p.ContainerStatuses)
                ELSE "nil"
      [] p.Phase = "Failed" -> "PodFailed"
      [] p.Phase = "Succeeded" -> "nil"
      [] p.Phase = "Unknown" -> "PodUnknown"
      [] OTHER -> "PodPhaseUnrecognised"

VerifyPodStatus_SucceededUnhealthy(p) ==
    CASE p.Phase = "Pending" -> "PodPending"
      [] p.Phase = "Running" ->
            IF Len(p.ContainerStatuses) # 0
                THEN ContainersLoop(p.ContainerStatuses)
                ELSE "nil"
      [] p.Phase = "Failed" -> "PodFailed"
      [] p.Phase = "Succeeded" -> "PodSucceeded"
      [] p.Phase = "Unknown" -> "PodUnknown"
      [] OTHER -> "PodPhaseUnrecognised"

\* part_004:285-355: an error means "not healthy", nil means healthy
VerifyPodStatus(p) ==
    CASE p.Phase = "Pending" -> "PodPending"
      [] p.Phase = "Running" ->
            IF Len(p.ContainerStatuses) # 0
                THEN ContainersLoop(p.ContainerStatuses)
                ELSE "nil"
      [] p.Phase = "Failed" -> "PodFailed"
      [] p.Phase = "Succeeded" -> "nil"
      [] p.Phase = "Unknown" -> "PodUnknown"
      [] OTHER -> "PodPhaseUnrecognised"

\* part_004:255-282: nil (eligible) or the error of the first failing check
PodChecks(resp) ==
    LET got == GetPodDetails(resp)
        podInfo == got.podData
    IN  IF got.err # "nil" THEN got.err
        ELSE IF VerifyPodHasOwner(podInfo) # "nil" THEN VerifyPodHasOwner(podInfo)
        ELSE IF VerifyPodScheduledToBeDeleted(podInfo) # "nil"
            THEN VerifyPodScheduledToBeDeleted(podInfo)
        ELSE IF VerifyPodStatus(podInfo) # "nil" THEN "nil"
        ELSE "AlreadyHealthy"

(***************************************************************************)
(* Events.  A message is a sequence of characters; strings.Contains is     *)
(* computed as a substring search.                                         *)
(***************************************************************************)
\* main.go:34 and main.go:39, the defaults of --reason and --error-message
eventReason == "FailedCreatePodSandBox"
errorMessage == <<"v", "e">>

Contains(s, sub) ==
    \E i \in 0..(Len(s) - Len(sub)) :
        \A j \in 1..Len(sub) : s[i + j] = sub[j]

MkEvent(uid, key, reason, msg, ts) ==
    [UID |-> uid, PodName |-> key[2], PodNamespace |-> key[1],
     Reason |-> reason, Message |-> msg, LastTimestamp |-> ts]

ListResponses_AllNamespaces(ns) ==
    {[err |-> "nil", items |-> events]}
    \cup
    (IF Budget THEN {[err |-> "ListError", items |-> <<>>]} ELSE {})

\* api.Events(namespace).List: the Events of the namespace, or of every
\* namespace when namespace = ""
ListResponses(ns) ==
    {[err |-> "nil",
      items |-> SelectSeq(events, LAMBDA e : ns = "" \/ e.PodNamespace = ns)]}
    \cup
    (IF Budget THEN {[err |-> "ListError", items |-> <<>>]} ELSE {})

GetEvents_ReasonOnly(resp, reason, message) ==
    IF resp.err # "nil" THEN [err |-> "FetchError", podEvents |-> <<>>]
    ELSE [err |-> "nil",
          podEvents |-> SelectSeq(resp.items, LAMBDA item : item.Reason = reason)]

\* part_004:84-122
GetEvents(resp, reason, message) ==
    IF resp.err # "nil" THEN [err |-> "FetchError", podEvents |-> <<>>]
    ELSE [err |-> "nil",
          podEvents |-> SelectSeq(resp.items,
              LAMBDA item : item.Reason = reason /\ Contains(item.Message, message))]

RemoveOlderEvents_DropBoundary(evs, eventMaxAge) ==
    SelectSeq(evs, LAMBDA event : event.LastTimestamp > eventMaxAge)

\* part_004:410-420
RemoveOlderEvents(evs, eventMaxAge) ==
    SelectSeq(evs, LAMBDA event : ~(event.LastTimestamp < eventMaxAge))

\* part_004:393-407: the loop state is (uniquePodList, uniqueUIDsList)
RECURSIVE UniqueLoop(_, _, _)
UniqueLoop(evs, list, uids) ==
    IF evs = <<>> THEN list
    ELSE LET event == Head(evs) IN
         IF event.UID \in uids THEN UniqueLoop(Tail(evs), list, uids)
         ELSE UniqueLoop(Tail(evs),
                         [n \in DOMAIN list \cup {event.PodName} |->
                             IF n = event.PodName THEN event.PodNamespace
                             ELSE list[n]],
                         uids \cup {event.UID})

EmptyMap == [n \in {} |-> ""]

GetUniqueListOfPods_EveryEvent(evs) ==
    [n \in {evs[i].PodName : i \in 1..Len(evs)} |->
        LET last == CHOOSE i \in 1..Len(evs) :
                        /\ evs[i].PodName = n
                        /\ \A j \in (i + 1)..Len(evs) : evs[j].PodName # n
        IN  evs[last].PodNamespace]

GetUniqueListOfPods(evs) == UniqueLoop(evs, EmptyMap, {})

GenerateToBeDeletedPodList_ErrorSwallowed(resp, cnt, interval, t) ==
    LET got == GetEvents(resp, eventReason, errorMessage)
        eventList == IF cnt > 0
                     THEN RemoveOlderEvents(got.podEvents, t - interval)
                     ELSE got.podEvents
    IN  [err |-> "nil", list |-> GetUniqueListOfPods(eventList),
         podEvents |-> got.podEvents, eventList |-> eventList]

GenerateToBeDeletedPodList_FilterAlways(resp, cnt, interval, t) ==
    LET got == GetEvents(resp, eventReason, errorMessage)
        eventList == RemoveOlderEvents(got.podEvents, t - interval)
    IN  IF got.err # "nil"
        THEN [err |-> got.err, list |-> EmptyMap,
              podEvents |-> got.podEvents, eventList |-> <<>>]
        ELSE [err |-> "nil", list |-> GetUniqueListOfPods(eventList),
              podEvents |-> got.podEvents, eventList |-> eventList]

\* part_004:223-248
GenerateToBeDeletedPodList(resp, cnt, interval, t) ==
    LET got == GetEvents(resp, eventReason, errorMessage)
        eventMaxAge == t - interval
        eventList == IF cnt > 0 THEN RemoveOlderEvents(got.podEvents, eventMaxAge)
                     ELSE got.podEvents
    IN  IF got.err # "nil"
        THEN [err |-> got.err, list |-> EmptyMap,
              podEvents |-> got.podEvents, eventList |-> <<>>]
        ELSE [err |-> "nil", list |-> GetUniqueListOfPods(eventList),
              podEvents |-> got.podEvents, eventList |-> eventList]

(***************************************************************************)
(* api.Pods(ns).Delete.  An accepted delete either starts the graceful     *)
(* termination (the Pod stays, deletion timestamp set) or removes the Pod  *)
(* at once.                                                                *)
(***************************************************************************)
Without(key) == [k \in DOMAIN pods \ {key} |-> pods[k]]

DeleteOutcomes_FailureRemoves(key) ==
    (IF key \in DOMAIN pods
        THEN {[err |-> "nil",
               after |-> [pods EXCEPT ![key].DeletionTimestamp = "set"]],
              [err |-> "nil", after |-> Without(key)]}
        ELSE {[err |-> "NotFound", after |-> pods]})
    \cup
    (IF Budget THEN {[err |-> "DeleteError", after |-> Without(key)]} ELSE {})

DeleteOutcomes(key) ==
    (IF key \in DOMAIN pods
        THEN {[err |-> "nil",
               after |-> [pods EXCEPT ![key].DeletionTimestamp = "set"]],
              [err |-> "nil", after |-> Without(key)]}
        ELSE {[err |-> "NotFound", after |-> pods]})
    \cup
    (IF Budget THEN {[err |-> "DeleteError", after |-> pods]} ELSE {})

DeletePod_SwallowNotFound(err) == IF err = "NotFound" THEN "nil" ELSE err

DeletePod_AlwaysNil(err) == "nil"

\* part_004:207-220: any error of the Delete call is returned as it is
DeletePod(err) == err

(***************************************************************************)
(* main(): the loop.                                                       *)
(***************************************************************************)
NoCheck == [key |-> <<"", "">>, resp |-> [err |-> "none", item |-> ZeroPod],
            result |-> "none"]
NoDelete == [key |-> <<"", "">>, resp |-> "none", err |-> "none",
             printed |-> FALSE, before |-> "none", again |-> FALSE]

NoList == [resp |-> [err |-> "none", items |-> <<>>], podEvents |-> <<>>,
           eventList |-> <<>>, at |-> 0]

KeyOf_DefaultNamespace(pod) == <<"default", pod>>

KeyOf(pod) == <<uniquePodList[pod], pod>>

Fault(bad) == faults' = IF bad THEN faults + 1 ELSE faults

MainBranch_SkipChecks(err, dry) ==
    IF dry THEN "dryrun" ELSE "delete"

MainBranch_IgnoreDryRun(err, dry) ==
    IF err # "nil" THEN "rejected" ELSE "delete"

MainBranch_DryRunFirst(err, dry) ==
    IF dry THEN "dryrun"
    ELSE IF err # "nil" THEN "rejected"
    ELSE "delete"

\* main.go:89-100: what the loop body does with the result of PodChecks
MainBranch(err, dry) ==
    IF err # "nil" THEN "rejected"
    ELSE IF dry THEN "dryrun"
    ELSE "delete"

Fatal_EveryCall(call) == TRUE

Fatal_PodChecks(call) == call \in {"NewClientSet", "PodChecks"}

Fatal_DeletePod(call) == call \in {"NewClientSet", "DeletePod"}

\* main.go:69-71, 79-81, 90-93, 101-103: the failing call after which main()
\* calls os.Exit(1); after the others it logs the error and goes on
Fatal(call) == call = "NewClientSet"

\* main.go:62-74: NewClientSet succeeded
NewClient ==
    /\ pc = "newclient"
    /\ counter < MaxIter
    /\ pc' = "generate"
    /\ UNCHANGED <<pods, events, counter, uniquePodList, todo, cur, dryRunMode,
                   namespace, pollingInterval, now, faults, envSteps, lastCheck,
                   lastDelete, okd, rejected, deleteCalls, accepted, logged, found,
                   past>>

\* main.go:69-71: NewClientSet failed, os.Exit(1)
NewClientFails ==
    /\ pc = "newclient"
    /\ counter < MaxIter
    /\ Budget
    /\ faults' = faults + 1
    /\ pc' = IF Fatal("NewClientSet") THEN "exited" ELSE "generate"
    /\ UNCHANGED <<pods, events, counter, uniquePodList, todo, cur, dryRunMode,
                   namespace, pollingInterval, now, envSteps, lastCheck,
                   lastDelete, okd, rejected, deleteCalls, accepted, logged, found,
                   past>>

\* main.go:78-81 (the per-iteration history starts afresh here)
Generate ==
    /\ pc = "generate"
    /\ \E resp \in ListResponses(namespace) :
        LET r == GenerateToBeDeletedPodList(resp, counter, pollingInterval, now) IN
        /\ uniquePodList' = r.list
        /\ todo' = DOMAIN r.list
        /\ logged' = r.err
        /\ found' = [resp |-> resp, podEvents |-> r.podEvents,
                     eventList |-> r.eventList, at |-> now]
        /\ past' = [retained |-> past.retained \cup
                                   {found.eventList[i] : i \in 1..Len(found.eventList)},
                    listed |-> past.listed \/ found.resp.err = "nil",
                    failed |-> past.failing, failing |-> {}]
        /\ Fault(resp.err # "nil")
        /\ pc' = IF r.err # "nil" /\ Fatal("GenerateToBeDeletedPodList")
                 THEN "exited" ELSE "grace"
    /\ lastCheck' = NoCheck
    /\ lastDelete' = NoDelete
    /\ okd' = {}
    /\ rejected' = {}
    /\ deleteCalls' = {}
    /\ UNCHANGED <<pods, events, counter, cur, dryRunMode, namespace,
                   pollingInterval, now, envSteps, accepted>>

\* main.go:84
GraceSleep ==
    /\ pc = "grace"
    /\ now' = now + healTime
    /\ pc' = "range"
    /\ UNCHANGED <<pods, events, counter, uniquePodList, todo, cur, dryRunMode,
                   namespace, pollingInterval, faults, envSteps, lastCheck,
                   lastDelete, okd, rejected, deleteCalls, accepted, logged, found,
                   past>>

\* main.go:87-98: one pass of the range loop up to the DeletePod call; Go
\* visits the keys of a map in no fixed order
Check(pod, resp, branch) ==
    LET err == PodChecks(resp) IN
    /\ pc = "range"
    /\ pod \in todo
    /\ resp \in GetResponses(KeyOf(pod))
    /\ MainBranch(err, dryRunMode) = branch
    /\ lastCheck' = [key |-> KeyOf(pod), resp |-> resp, result |-> err]
    /\ Fault(Failed(resp))
    /\ okd' = IF err = "nil" THEN okd \cup {KeyOf(pod)} ELSE okd
    /\ rejected' = IF err # "nil" THEN rejected \cup {KeyOf(pod)} ELSE rejected
    /\ UNCHANGED <<pods, events, counter, uniquePodList, dryRunMode, namespace,
                   pollingInterval, now, envSteps, lastDelete, deleteCalls,
                   accepted, found, past>>

\* main.go:90-93
CheckRejected ==
    \E pod \in todo : \E resp \in GetResponses(KeyOf(pod)) :
        /\ Check(pod, resp, "rejected")
        /\ logged' = PodChecks(resp)
        /\ todo' = todo \ {pod}
        /\ pc' = IF Fatal("PodChecks") THEN "exited" ELSE pc
        /\ UNCHANGED cur

\* main.go:95-98
CheckDryRun ==
    \E pod \in todo : \E resp \in GetResponses(KeyOf(pod)) :
        /\ Check(pod, resp, "dryrun")
        /\ logged' = "WouldHaveDeleted"
        /\ todo' = todo \ {pod}
        /\ UNCHANGED <<pc, cur>>

\* main.go:89-99: PodChecks returned nil and dry-run is off
CheckEligible ==
    \E pod \in todo : \E resp \in GetResponses(KeyOf(pod)) :
        /\ Check(pod, resp, "delete")
        /\ cur' = pod
        /\ pc' = "delete"
        /\ UNCHANGED <<todo, logged>>

\* main.go:100-103
Delete ==
    /\ pc = "delete"
    /\ \E out \in DeleteOutcomes(KeyOf(cur)) :
        LET key == KeyOf(cur)
            was == IF key \in DOMAIN pods THEN pods[key] ELSE ZeroPod
        IN
        /\ pods' = out.after
        /\ lastDelete' =
              [key |-> key, resp |-> out.err, err |-> DeletePod(out.err),
               printed |-> DeletePod(out.err) # "nil",
               before |-> IF key \in DOMAIN pods THEN was.DeletionTimestamp
                          ELSE "absent",
               again |-> key \in DOMAIN pods /\ was.UID \in accepted]
        /\ logged' = DeletePod(out.err)
        /\ accepted' = IF out.err = "nil" THEN accepted \cup {was.UID}
                       ELSE accepted
        /\ Fault(out.err = "DeleteError")
        /\ past' = IF out.err = "DeleteError"
                   THEN [past EXCEPT !.failing = @ \cup {key}]
                   ELSE past
        /\ pc' = IF DeletePod(out.err) # "nil" /\ Fatal("DeletePod")
                 THEN "exited" ELSE "range"
    /\ deleteCalls' = deleteCalls \cup {KeyOf(cur)}
    /\ todo' = todo \ {cur}
    /\ cur' = ""
    /\ UNCHANGED <<events, counter, uniquePodList, dryRunMode, namespace,
                   pollingInterval, now, envSteps, lastCheck, okd, rejected,
                   found>>

\* main.go:87/105: the range loop is over
RangeDone ==
    /\ pc = "range"
    /\ todo = {}
    /\ pc' = "sleep"
    /\ UNCHANGED <<pods, events, counter, uniquePodList, todo, cur, dryRunMode,
                   namespace, pollingInterval, now, faults, envSteps, lastCheck,
                   lastDelete, okd, rejected, deleteCalls, accepted, logged, found,
                   past>>

SleepFor_Skipped(interval) == 0

SleepFor_Negative(interval) == interval - healTime

\* main.go:106: time.Sleep returns at once for a negative duration
SleepFor(interval) == IF interval - healTime > 0 THEN interval - healTime ELSE 0

IntervalSleep ==
    /\ pc = "sleep"
    /\ now' = now + SleepFor(pollingInterval)
    /\ pc' = "incr"
    /\ UNCHANGED <<pods, events, counter, uniquePodList, todo, cur, dryRunMode,
                   namespace, pollingInterval, faults, envSteps, lastCheck,
                   lastDelete, okd, rejected, deleteCalls, accepted, logged, found,
                   past>>

\* main.go:107
Incr ==
    /\ pc = "incr"
    /\ counter < MaxIter
    /\ counter' = counter + 1
    /\ pc' = "newclient"
    /\ UNCHANGED <<pods, events, uniquePodList, todo, cur, dryRunMode,
                   namespace, pollingInterval, now, faults, envSteps, lastCheck,
                   lastDelete, okd, rejected, deleteCalls, accepted, logged, found,
                   past>>

ProgramNext ==
    \/ NewClient
    \/ NewClientFails
    \/ Generate
    \/ GraceSleep
    \/ CheckRejected
    \/ CheckDryRun
    \/ CheckEligible
    \/ Delete
    \/ RangeDone
    \/ IntervalSleep
    \/ Incr

(***************************************************************************)
(* The cluster changes on its own: kubelet, controllers and other clients. *)
(***************************************************************************)
EnvUnchanged ==
    UNCHANGED <<pc, counter, uniquePodList, todo, cur, dryRunMode, namespace,
                pollingInterval, now, faults, lastCheck, lastDelete, okd,
                rejected, deleteCalls, accepted, logged, found,
                   past>>

\* a Pending Pod starts: the self-healing the grace sleep waits for
EnvSelfHeal ==
    \E key \in DOMAIN pods :
        /\ Budget
        /\ pods[key].Phase = "Pending"
        /\ pods[key].DeletionTimestamp = "nil"
        /\ pods' = [pods EXCEPT ![key].Phase = "Running",
                                ![key].ContainerStatuses = <<NotTerminated>>]
        /\ envSteps' = envSteps + 1
        /\ UNCHANGED events
        /\ EnvUnchanged

\* a controller creates a Pod of that name anew (new UID)
EnvRecreate ==
    \E key \in Keys :
        /\ Budget
        /\ pods' = [k \in DOMAIN pods \cup {key} |->
                      IF k = key
                        THEN [UID |-> "u4", Phase |-> "Pending",
                              ContainerStatuses |-> <<>>,
                              OwnerReferences |-> <<"ReplicaSet">>,
                              DeletionTimestamp |-> "nil"]
                        ELSE pods[k]]
        /\ envSteps' = envSteps + 1
        /\ UNCHANGED events
        /\ EnvUnchanged

\* another client asks for the Pod's deletion: graceful termination starts
EnvMarkDeleting ==
    \E key \in DOMAIN pods :
        /\ Budget
        /\ pods[key].DeletionTimestamp = "nil"
        /\ pods' = [pods EXCEPT ![key].DeletionTimestamp = "set"]
        /\ envSteps' = envSteps + 1
        /\ UNCHANGED events
        /\ EnvUnchanged

\* the Pod goes away (termination finished, eviction, node loss)
EnvRemovePod ==
    \E key \in DOMAIN pods :
        /\ Budget
        /\ pods' = Without(key)
        /\ envSteps' = envSteps + 1
        /\ UNCHANGED events
        /\ EnvUnchanged

\* kubelet reports the failure of a Pod again: a fresh matching Event
EnvEmitEvent ==
    \E key \in DOMAIN pods :
        /\ Budget
        /\ events' = Append(events,
              MkEvent(pods[key].UID, key, eventReason, <<"v", "e", "x">>, now))
        /\ envSteps' = envSteps + 1
        /\ UNCHANGED pods
        /\ EnvUnchanged

EnvNext ==
    \/ EnvSelfHeal
    \/ EnvRecreate
    \/ EnvMarkDeleting
    \/ EnvRemovePod
    \/ EnvEmitEvent

(***************************************************************************)
(* Initial states.                                                         *)
(***************************************************************************)
UidOf(key) ==
    CASE key = <<"default", "foo">> -> "u1"
      [] key = <<"default", "bar">> -> "u2"
      [] OTHER -> "u3"

PendingPod(uid, owners) ==
    [UID |-> uid, Phase |-> "Pending", ContainerStatuses |-> <<>>,
     OwnerReferences |-> owners, DeletionTimestamp |-> "nil"]

RunningPod(uid) ==
    [UID |-> uid, Phase |-> "Running", ContainerStatuses |-> <<NotTerminated>>,
     OwnerReferences |-> <<"ReplicaSet">>, DeletionTimestamp |-> "nil"]

\* the Pods a run starts with: stuck in Pending, owned by a controller or
\* (default/foo) bare, or (default/bar) healthy
InitPods(key) ==
    {PendingPod(UidOf(key), <<"ReplicaSet">>)}
    \cup (IF key = <<"default", "foo">> THEN {PendingPod(UidOf(key), <<>>)} ELSE {})
    \cup (IF key = <<"default", "bar">> THEN {RunningPod(UidOf(key))} ELSE {})

Matching == <<"x", "v", "e">>

InitEventLists ==
    {<<MkEvent("u1", <<"default", "foo">>, eventReason, Matching, 0),
       MkEvent("u2", <<"default", "bar">>, "Scheduled", Matching, 0),
       MkEvent("u2", <<"default", "bar">>, eventReason, Matching, 0),
       MkEvent("u1", <<"default", "foo">>, eventReason, Matching, -5),
       MkEvent("u3", <<"kube", "foo">>, eventReason, Matching, 0)>>,
     <<MkEvent("u3", <<"kube", "foo">>, eventReason, Matching, 0),
       MkEvent("u2", <<"default", "bar">>, eventReason, <<"v", "x", "e">>, 0),
       MkEvent("u1", <<"default", "foo">>, eventReason, Matching, 0)>>}

PollingIntervals == {3, 10}

HistoryInit ==
    /\ lastCheck = NoCheck
    /\ lastDelete = NoDelete
    /\ okd = {}
    /\ rejected = {}
    /\ deleteCalls = {}
    /\ accepted = {}
    /\ logged = "none"
    /\ found = NoList
    /\ past = [retained |-> {}, listed |-> FALSE, failed |-> {}, failing |-> {}]

Init ==
    /\ pods \in {f \in [Keys -> UNION {InitPods(k) : k \in Keys}] :
                    \A k \in Keys : f[k] \in InitPods(k)}
    /\ events \in InitEventLists
    /\ pc = "newclient"
    /\ counter = 0
    /\ uniquePodList = EmptyMap
    /\ todo = {}
    /\ cur = ""
    /\ dryRunMode \in BOOLEAN
    /\ namespace \in {"", "default"}
    /\ pollingInterval \in PollingIntervals
    /\ pollingInterval < healTime => ~dryRunMode
    /\ now = 0
    /\ faults = 0
    /\ envSteps = 0
    /\ HistoryInit

Next == ProgramNext \/ EnvNext

Spec == Init /\ [][Next]_vars

(***************************************************************************)
(* The loop body of main() on one candidate, over every Pod object the     *)
(* cluster can hold under that name (or none).                             *)
(***************************************************************************)
Probe == <<"default", "foo">>

InitChecks ==
    /\ pods \in {EmptyMap} \cup
                {[k \in {Probe} |-> p] : p \in PodObjects({"u1"})}
    /\ events = <<>>
    /\ pc = "range"
    /\ counter = 0
    /\ uniquePodList = [n \in {Probe[2]} |-> Probe[1]]
    /\ todo = {Probe[2]}
    /\ cur = ""
    /\ dryRunMode \in BOOLEAN
    /\ namespace = ""
    /\ pollingInterval = 10
    /\ now = healTime
    /\ faults = 0
    /\ envSteps = 0
    /\ HistoryInit

NextChecks ==
    \/ CheckRejected
    \/ CheckDryRun
    \/ CheckEligible
    \/ Delete
    \/ RangeDone

SpecChecks == InitChecks /\ [][NextChecks]_vars

(***************************************************************************)
(* GenerateToBeDeletedPodList on its own, over every Event list of up to   *)
(* MaxEvents Events: Events that differ in what GetEvents looks at (scope, *)
(* reason, message), and matching Events that differ in what the staleness *)
(* filter and the de-duplication look at (timestamp, UID, name).           *)
(***************************************************************************)
Messages == {<<"v", "e", "x">>, Matching, <<"v", "x", "e">>, <<"V", "e">>}

MatchEvents ==
    {MkEvent(UidOf(k), k, r, m, 15) :
        k \in {<<"default", "foo">>, <<"kube", "foo">>},
        r \in {eventReason, "Scheduled"},
        m \in Messages}

\* a UID names one Pod; u4 is a later Pod of the name default/foo
PodOfUid(uid) ==
    IF uid = "u4" THEN <<"default", "foo">>
    ELSE CHOOSE k \in Keys : UidOf(k) = uid

DedupEvents ==
    {MkEvent(u, PodOfUid(u), eventReason, Matching, ts) :
        u \in {"u1", "u2", "u3", "u4"}, ts \in {5, 10, 15}}

InitEvents ==
    /\ pods = EmptyMap
    /\ events \in SeqsUpTo(MatchEvents, MaxEvents)
                   \cup SeqsUpTo(DedupEvents, MaxEvents)
    /\ pc = "generate"
    /\ counter \in {0, 1}
    /\ uniquePodList = EmptyMap
    /\ todo = {}
    /\ cur = ""
    /\ dryRunMode = FALSE
    /\ namespace \in {"", "default"}
    /\ pollingInterval = 10
    /\ now = 20
    /\ faults = 0
    /\ envSteps = 0
    /\ HistoryInit

NextEvents == Generate

SpecEvents == InitEvents /\ [][NextEvents]_vars

(***************************************************************************)
(* Properties.                                                             *)
(***************************************************************************)
Checked == lastCheck.result # "none"
Fetched == Checked /\ lastCheck.resp.err = "nil"
Seen == lastCheck.resp.item
FetchFailed == {"FetchFailedStatus", "FetchFailedOther"}
NoDeleteFor(key) == key \notin deleteCalls /\ ~(pc = "delete" /\ KeyOf(cur) = key)

\* C1: within an iteration DeletePod is called only for a candidate that
\* PodChecks accepted earlier in that iteration, never for one it rejected,
\* and only when dry-run is off.
C1_DeleteOnlyAfterChecks ==
    /\ deleteCalls \subseteq okd
    /\ deleteCalls \cap rejected = {}
    /\ (deleteCalls # {} => ~dryRunMode)
    /\ (pc = "delete" => KeyOf(cur) \in okd \ rejected /\ ~dryRunMode)

C1_Witness ==
    /\ deleteCalls # {}
    /\ rejected # {}
    /\ pc = "sleep"

\* C2: in dry-run mode no step reaches the DeletePod call, no delete request
\* is ever recorded, and every step of the program (every step that is not a
\* cluster-side change) leaves the cluster's Pods as they are.
C2_DryRunNeverDeletes ==
    [][dryRunMode =>
          /\ pc' # "delete"
          /\ lastDelete' = NoDelete
          /\ deleteCalls' = {}
          /\ accepted' = {}
          /\ (envSteps' = envSteps => pods' = pods)]_vars

C2_Witness ==
    /\ dryRunMode
    /\ counter > 0
    /\ okd # {}
    /\ logged = "WouldHaveDeleted"

\* C3: PodChecks on a fetched Pod without owner references answers NoOwner,
\* whatever its phase, containers and deletion timestamp, and the Pod gets no
\* DeletePod call; a fetched Pod with an owner reference is never answered
\* NoOwner.  A Pod of the cluster without owner is never sent a delete.
C3_NoOwnerRejected ==
    /\ Fetched =>
          IF Seen.OwnerReferences = <<>>
            THEN lastCheck.result = "NoOwner" /\ NoDeleteFor(lastCheck.key)
            ELSE lastCheck.result # "NoOwner"
    /\ \A key \in DOMAIN pods :
          pods[key].OwnerReferences = <<>> => NoDeleteFor(key)

C3_Witness ==
    /\ Fetched
    /\ Seen.OwnerReferences = <<>>
    /\ Seen.Phase = "Running"
    /\ Seen.DeletionTimestamp = "set"
    /\ lastCheck.result = "NoOwner"
    /\ pc = "sleep"

\* C4: PodChecks on a fetched Pod that has an owner and a deletion timestamp
\* answers AlreadyDeleting, and the Pod gets no DeletePod call.
C4_AlreadyDeletingRejected ==
    (Fetched /\ Seen.OwnerReferences # <<>> /\ Seen.DeletionTimestamp = "set")
        => lastCheck.result = "AlreadyDeleting" /\ NoDeleteFor(lastCheck.key)

\* C5: no DeletePod call is made for a Pod whose delete request was accepted
\* before and that is still there with its deletion timestamp set; a Pod that
\* is gone is rejected at the existence check.
C5_NoDoubleProcessing ==
    /\ ~(lastDelete.again /\ lastDelete.before = "set")
    /\ (Checked /\ lastCheck.resp.err = "NotFound" => lastCheck.result = "Gone")

\* C6: PodChecks accepts (returns nil for) every fetched Pod that has an
\* owner, no deletion timestamp and phase Pending, Failed or Unknown, whatever
\* its container statuses.
C6_UnhealthyPhasesEligible ==
    (/\ Fetched
     /\ Seen.OwnerReferences # <<>>
     /\ Seen.DeletionTimestamp = "nil"
     /\ Seen.Phase \in {"Pending", "Failed", "Unknown"})
        => lastCheck.result = "nil"

C6_Witness ==
    /\ Fetched
    /\ Seen.OwnerReferences # <<>>
    /\ Seen.DeletionTimestamp = "nil"
    /\ Seen.Phase = "Unknown"
    /\ Len(Seen.ContainerStatuses) > 1
    /\ \A i \in DOMAIN Seen.ContainerStatuses :
          Seen.ContainerStatuses[i] =
              [Terminated |-> TRUE, Reason |-> "Completed", ExitCode |-> 0]
    /\ lastCheck.result = "nil"
    /\ lastDelete.key = lastCheck.key

Healthy(p) ==
    \/ p.Phase = "Succeeded"
    \/ /\ p.Phase = "Running"
       /\ \A i \in DOMAIN p.ContainerStatuses :
             \/ ~p.ContainerStatuses[i].Terminated
             \/ /\ p.ContainerStatuses[i].Reason = "Completed"
                /\ p.ContainerStatuses[i].ExitCode = 0

\* C7: PodChecks answers AlreadyHealthy for every fetched Pod that has an
\* owner, no deletion timestamp and is Healthy (Succeeded, or Running with no
\* container status, or Running with every container not terminated or
\* terminated Completed/0), and the Pod gets no DeletePod call.
C7_HealthyRejected ==
    (/\ Fetched
     /\ Seen.OwnerReferences # <<>>
     /\ Seen.DeletionTimestamp = "nil"
     /\ Healthy(Seen))
        => lastCheck.result = "AlreadyHealthy" /\ NoDeleteFor(lastCheck.key)

C7_Witness ==
    /\ Fetched
    /\ Seen.OwnerReferences # <<>>
    /\ Seen.DeletionTimestamp = "nil"
    /\ Seen.Phase = "Running"
    /\ Len(Seen.ContainerStatuses) > 1
    /\ ~Seen.ContainerStatuses[1].Terminated
    /\ Seen.ContainerStatuses[2].Terminated
    /\ lastCheck.result = "AlreadyHealthy"
    /\ ~dryRunMode
    /\ pc = "sleep"

BadContainer(c) ==
    c.Terminated /\ (c.Reason # "Completed" \/ c.ExitCode # 0)

\* C8: PodChecks accepts every fetched Running Pod that has an owner, no
\* deletion timestamp and at least one container terminated other than
\* Completed/0, wherever that container stands in the list.
C8_FailedContainerEligible ==
    (/\ Fetched
     /\ Seen.OwnerReferences # <<>>
     /\ Seen.DeletionTimestamp = "nil"
     /\ Seen.Phase = "Running"
     /\ \E i \in DOMAIN Seen.ContainerStatuses :
           BadContainer(Seen.ContainerStatuses[i]))
        => lastCheck.result = "nil"

C8_Witness ==
    /\ Fetched
    /\ Seen.Phase = "Running"
    /\ Len(Seen.ContainerStatuses) > 1
    /\ ~Seen.ContainerStatuses[1].Terminated
    /\ BadContainer(Seen.ContainerStatuses[Len(Seen.ContainerStatuses)])
    /\ Seen.ContainerStatuses[Len(Seen.ContainerStatuses)].Reason = "Completed"
    /\ lastCheck.result = "nil"

\* C9: a successful Get yields the Pod's details without error; a not-found
\* answer makes PodChecks answer Gone and any other failure FetchFailed; after
\* a failed fetch no later check decides (the answer is the fetch error) and
\* the candidate gets no DeletePod call.
C9_FetchErrors ==
    Checked =>
        /\ lastCheck.resp.err = "NotFound" => lastCheck.result = "Gone"
        /\ lastCheck.resp.err \in {"StatusError", "OtherError"}
              => lastCheck.result \in FetchFailed
        /\ lastCheck.resp.err # "nil" => NoDeleteFor(lastCheck.key)
        /\ lastCheck.resp.err = "nil" =>
              /\ lastCheck.result \notin FetchFailed \cup {"Gone"}
              /\ GetPodDetails(lastCheck.resp).err = "nil"
              /\ GetPodDetails(lastCheck.resp).podData.UID = Seen.UID
              /\ GetPodDetails(lastCheck.resp).podData.Phase = Seen.Phase

C9_Witness ==
    /\ Checked
    /\ lastCheck.key \notin DOMAIN pods
    /\ lastCheck.resp.err = "NotFound"
    /\ lastCheck.result = "Gone"
    /\ pc = "sleep"

\* C10 as stated: a not-found answer to the delete request is a success, no
\* error is returned to main() or printed.
C10_NotFoundIsSuccess ==
    lastDelete.resp = "NotFound" => lastDelete.err = "nil" /\ ~lastDelete.printed

\* C10 amended: DeletePod returns the not-found error to main(), which prints
\* it and goes on: the candidate is done for this iteration (no retry).
C10_NotFoundReturned ==
    lastDelete.resp = "NotFound" =>
        /\ lastDelete.err = "NotFound"
        /\ lastDelete.printed
        /\ lastDelete.key \in deleteCalls
        /\ lastDelete.key[2] \notin todo

C10_Witness ==
    /\ lastDelete.resp = "NotFound"
    /\ lastDelete.key \in okd
    /\ pc = "sleep"

IsFiltered(out, in, P(_)) ==
    LET idx == {i \in 1..Len(in) : P(in[i])} IN
    /\ Len(out) = Cardinality(idx)
    /\ \A j \in 1..Len(out) :
          out[j] = in[CHOOSE i \in idx : Cardinality({k \in idx : k <= i}) = j]

HasSubstring(msg) ==
    \E a \in 0..Len(msg) :
        /\ a + Len(errorMessage) <= Len(msg)
        /\ SubSeq(msg, a + 1, a + Len(errorMessage)) = errorMessage

Matches(e) == e.Reason = eventReason /\ HasSubstring(e.Message)

Generated == pc = "grace" /\ found.resp.err = "nil"

\* C12: GetEvents returns, without error, exactly the listed Events whose reason
\* equals the configured reason and whose message contains the configured
\* substring, every other Event left out; an empty list when none matches.
C12_GetEventsExact ==
    Generated =>
        /\ logged = "nil"
        /\ IsFiltered(found.podEvents, found.resp.items, Matches)

C12_Witness ==
    /\ Generated
    /\ found.podEvents # <<>>
    /\ \E i, j \in 1..Len(found.resp.items) :
          /\ found.resp.items[i].Reason # eventReason
          /\ HasSubstring(found.resp.items[i].Message)
          /\ found.resp.items[j].Reason = eventReason
          /\ ~HasSubstring(found.resp.items[j].Message)

\* C13: with one configured namespace the matched Events, every PodChecks call
\* and every DeletePod call are of that namespace, and the program changes no
\* Pod outside it; with the scope "" the matching Events of every namespace are
\* returned.
C13_NamespaceScope ==
    [][/\ namespace # "" =>
            /\ \A i \in 1..Len(found'.podEvents) :
                   found'.podEvents[i].PodNamespace = namespace
            /\ \A k \in okd' \cup rejected' \cup deleteCalls' : k[1] = namespace
            /\ lastCheck'.result # "none" => lastCheck'.key[1] = namespace
            /\ lastDelete'.err # "none" => lastDelete'.key[1] = namespace
            /\ envSteps' = envSteps =>
                   \A k \in Keys :
                       k[1] # namespace =>
                           /\ k \in DOMAIN pods' <=> k \in DOMAIN pods
                           /\ k \in DOMAIN pods => pods'[k] = pods[k]
       /\ (namespace = "" /\ pc = "generate" /\ pc' = "grace"
              /\ found'.resp.err = "nil") =>
            IsFiltered(found'.podEvents, events, Matches)]_vars

C13_Witness ==
    /\ namespace = "default"
    /\ deleteCalls # {}
    /\ pc = "sleep"
    /\ <<"kube", "foo">> \in DOMAIN pods
    /\ \E i \in 1..Len(events) :
          Matches(events[i]) /\ events[i].PodNamespace = "kube"

\* C14: when listing Events fails, GenerateToBeDeletedPodList returns an error
\* and an empty candidate set; that iteration makes no PodChecks and no
\* DeletePod call, the process does not exit and reaches the next iteration.
C14_ListFailure ==
    [][/\ (pc = "generate" /\ pc' # pc /\ found'.resp.err = "ListError") =>
            /\ logged' = "FetchError"
            /\ uniquePodList' = EmptyMap
            /\ todo' = {}
            /\ pc' = "grace"
       /\ (found.resp.err = "ListError" /\ pc \in {"grace", "range", "sleep"}) =>
            /\ pc' \in {"grace", "range", "sleep", "incr"}
            /\ lastCheck' = NoCheck
            /\ lastDelete' = NoDelete
            /\ okd' \cup rejected' \cup deleteCalls' = {}
            /\ envSteps' = envSteps => pods' = pods
       /\ (found.resp.err = "ListError" /\ pc = "incr" /\ envSteps' = envSteps) =>
            /\ pc' = "newclient"
            /\ counter' = counter + 1]_vars

C14_Witness ==
    /\ found.resp.err = "ListError"
    /\ events # <<>>
    /\ counter = 1
    /\ pc = "generate"

\* C15: the staleness filter returns the matched list as it is when counter is
\* 0; when counter > 0 it returns, in the original order, exactly the Events
\* whose lastTimestamp is at or after now - pollingInterval.
C15_StalenessFilter ==
    Generated =>
        IF counter = 0 THEN found.eventList = found.podEvents
        ELSE IsFiltered(found.eventList, found.podEvents,
                        LAMBDA e : e.LastTimestamp >= found.at - pollingInterval)

C15_Witness ==
    /\ Generated
    /\ counter > 0
    /\ Len(found.podEvents) = MaxEvents
    /\ \E i \in 1..Len(found.podEvents) :
          found.podEvents[i].LastTimestamp < found.at - pollingInterval
    /\ \E i \in 1..Len(found.eventList) :
          found.eventList[i].LastTimestamp = found.at - pollingInterval
    /\ \E i \in 1..Len(found.eventList) :
          found.eventList[i].LastTimestamp > found.at - pollingInterval

UIDsOf(evs) == {evs[i].UID : i \in 1..Len(evs)}

\* C16: the candidate set has exactly one entry per distinct Pod UID of the
\* retained list (its size is the number of distinct UIDs) and never more
\* entries than there are matching Events.
C16_OneEntryPerUID ==
    Generated =>
        /\ Cardinality(DOMAIN uniquePodList) = Cardinality(UIDsOf(found.eventList))
        /\ Cardinality(DOMAIN uniquePodList) <= Len(found.eventList)

\* the indexes of the Events that are the first of their UID in the list
FirstOfUID(evs) ==
    {i \in 1..Len(evs) : \A j \in 1..(i - 1) : evs[j].UID # evs[i].UID}

\* C17: Events carrying the same Pod UID contribute at most one candidate
\* entry: the first Event of a UID records name -> namespace, every later Event
\* of a UID already seen leaves the candidate map as it is.
C17_SameUIDOneEntry ==
    Generated =>
        LET evs == found.eventList
            firsts == FirstOfUID(evs)
            names == {evs[i].PodName : i \in firsts}
        IN  /\ DOMAIN uniquePodList = names
            /\ \A n \in names :
                  \E i \in firsts :
                      /\ evs[i].PodName = n
                      /\ uniquePodList[n] = evs[i].PodNamespace
                      /\ \A j \in firsts : evs[j].PodName = n => j <= i
            /\ Cardinality(DOMAIN uniquePodList) <= Cardinality(UIDsOf(evs))

C17_Witness ==
    /\ Generated
    /\ Len(found.eventList) = MaxEvents
    /\ found.eventList[1].UID = found.eventList[MaxEvents].UID
    /\ found.eventList[2].UID # found.eventList[1].UID
    /\ found.eventList[2].PodName = found.eventList[1].PodName
    /\ found.eventList[2].PodNamespace # found.eventList[1].PodNamespace
    /\ uniquePodList[found.eventList[1].PodName] = found.eventList[2].PodNamespace

\* C18: a failure of ListEvents, GetPod or DeletePod never ends the process:
\* main() goes on to the rest of the iteration; the process exits only when
\* the construction of the cluster client fails.
C18_OnlyClientFailureExits ==
    [][/\ (pc' = "exited" /\ pc # "exited") =>
            pc = "newclient" /\ faults' = faults + 1
       /\ (pc = "generate" /\ pc' # pc /\ found'.resp.err = "ListError") =>
            pc' = "grace"
       /\ (pc = "range" /\ todo' # todo /\ lastCheck'.resp.err # "nil") =>
            pc' = "range"
       /\ (pc = "delete" /\ lastDelete' # lastDelete /\ lastDelete'.err # "nil") =>
            pc' = "range"]_vars

C18_Witness ==
    /\ lastDelete.err = "DeleteError"
    /\ lastDelete.key \in DOMAIN pods
    /\ counter = 1
    /\ pc = "generate"

\* C19: once an iteration has constructed the cluster client, a failure to
\* construct it at the start of a later iteration is reported and does not end
\* the process.
C19_LaterClientFailureSurvived ==
    pc = "exited" => counter = 0

\* C20: with dry-run off, every cluster call succeeding and nothing else
\* changing the cluster, a Pod that has an Event in the iteration's retained
\* list and that is there Pending, owned and without deletion timestamp when
\* the candidates are validated is deleted in that iteration: at the end of
\* the iteration DeletePod was called for it and it is gone or terminating
\* (a Pod still there was, when validated, as it is now unless DeletePod was
\* called for it).
C20_EligiblePodDeleted ==
    (pc = "sleep" /\ ~dryRunMode /\ faults = 0 /\ envSteps = 0) =>
        \A i \in 1..Len(found.eventList) :
            LET e == found.eventList[i]
                key == <<e.PodNamespace, e.PodName>>
            IN  (key \in DOMAIN pods /\ pods[key].UID = e.UID
                   /\ pods[key].Phase = "Pending"
                   /\ pods[key].OwnerReferences # <<>>
                   /\ (pods[key].DeletionTimestamp = "nil"
                         \/ key \in deleteCalls)) =>
                    /\ key \in deleteCalls
                    /\ pods[key].DeletionTimestamp = "set"

\* C21: PodChecks answers with the reason of the first failing check in the
\* order existence, ownership, deletion-pending, health: a Pod that is not
\* there is Gone, a fetched Pod without owner is NoOwner even if it is Healthy
\* or terminating, and an owned Pod with a deletion timestamp is
\* AlreadyDeleting even if it is Healthy, never AlreadyHealthy.
C21_ChecksInOrder ==
    /\ (Checked /\ lastCheck.resp.err = "NotFound") => lastCheck.result = "Gone"
    /\ (Fetched /\ Seen.OwnerReferences = <<>>) => lastCheck.result = "NoOwner"
    /\ (Fetched /\ Seen.OwnerReferences # <<>> /\ Seen.DeletionTimestamp = "set"
          /\ Healthy(Seen)) =>
            lastCheck.result = "AlreadyDeleting"

CandidateKeys == {KeyOf(n) : n \in DOMAIN uniquePodList}

CheckStep == pc = "range" /\ (todo' # todo \/ pc' = "delete")

\* C22: in an iteration PodChecks is called once for every entry of the
\* candidate set and for no other Pod, DeletePod at most once per entry, and
\* neither a rejection nor a delete error keeps the loop from the remaining
\* candidates.
C22_OncePerCandidate ==
    [][/\ CheckStep =>
            /\ lastCheck'.key \in CandidateKeys
            /\ lastCheck'.key \notin okd \cup rejected
            /\ lastCheck'.key \in okd' \cup rejected'
       /\ (pc = "range" /\ todo' # todo) => pc' = "range"
       /\ (pc = "delete" /\ pc' # pc) =>
            /\ lastDelete'.key = lastCheck.key
            /\ lastDelete'.key \notin deleteCalls
            /\ todo' = todo \ {cur}
            /\ pc' = "range"
       /\ (pc = "range" /\ pc' = "sleep") =>
            okd \cup rejected = CandidateKeys]_vars

C22_Witness ==
    /\ pc = "sleep"
    /\ lastDelete.err = "DeleteError"
    /\ lastCheck.key # lastDelete.key
    /\ Cardinality(okd) = 1
    /\ rejected # {}

PhaseOrder ==
    {<<"newclient", "generate">>, <<"newclient", "exited">>,
     <<"generate", "grace">>, <<"grace", "range">>, <<"range", "delete">>,
     <<"delete", "range">>, <<"range", "sleep">>, <<"sleep", "incr">>,
     <<"incr", "newclient">>}

\* C23: every iteration goes through discovery, grace sleep, validate-and-act,
\* interval sleep and counter increment in that order: PodChecks and DeletePod
\* are called only after the iteration's discovery and its grace sleep, and
\* the counter is incremented only after the interval sleep.
C23_PhasesInOrder ==
    [][/\ pc' # pc => <<pc, pc'>> \in PhaseOrder
       /\ pc' = "grace" =>
            lastCheck' = NoCheck /\ okd' \cup rejected' \cup deleteCalls' = {}
       /\ CheckStep => now >= found.at + healTime
       /\ deleteCalls' # deleteCalls =>
            \/ pc = "generate"
            \/ pc = "delete" /\ now >= found.at + healTime
       /\ counter' # counter =>
            /\ pc = "incr"
            /\ now >= found.at + healTime
            /\ now >= found.at + pollingInterval]_vars

C23_Witness ==
    /\ counter = 1
    /\ pc = "newclient"
    /\ accepted # {}
    /\ rejected # {}
    /\ pollingInterval > healTime

\* C24: with every cluster call succeeding, a matching Event that the
\* staleness filter drops on an iteration k > 0 was in the retained list of an
\* earlier iteration's discovery.
C24_DroppedWasRetained ==
    (Generated /\ counter > 0 /\ faults = 0) =>
        \A i \in 1..Len(found.podEvents) :
            found.podEvents[i].LastTimestamp < found.at - pollingInterval =>
                found.podEvents[i] \in past.retained

\* the Pod of the i-th distinct UID first seen in the retained Event list
DedupOrder(i) ==
    LET evs == found.eventList
        idx == FirstOfUID(evs)
        j == CHOOSE j \in idx : Cardinality({k \in idx : k <= j}) = i
    IN  <<evs[j].PodNamespace, evs[j].PodName>>

NoCollision ==
    Cardinality(DOMAIN uniquePodList) = Cardinality(UIDsOf(found.eventList))

OneAtATime ==
    /\ CheckStep =>
          /\ cur = ""
          /\ lastCheck'.key[2] \in todo
          /\ lastCheck'.key = <<uniquePodList[lastCheck'.key[2]], lastCheck'.key[2]>>
    /\ (pc = "range" /\ pc' = "delete") => cur' = lastCheck'.key[2]
    /\ (pc = "delete" /\ pc' # pc) =>
          /\ lastDelete'.key = lastCheck.key
          /\ lastCheck' = lastCheck
          /\ cur' = ""

\* C25 as stated: the i-th Pod to receive PodChecks in an iteration is the Pod
\* of the i-th distinct UID first seen in the Event list, and one candidate is
\* done with before the PodChecks of the next begins.
C25_DedupOrder ==
    [][/\ (CheckStep /\ NoCollision) =>
            lastCheck'.key = DedupOrder(Cardinality(okd \cup rejected) + 1)
       /\ OneAtATime]_vars

\* C25 amended: the candidates are validated and deleted one at a time, each
\* a key of the candidate map not visited yet, the DeletePod of a candidate
\* following its own PodChecks before the next PodChecks begins; the order is
\* the one the range over the map takes, not the deduplication order.
C25_OneAtATime ==
    [][OneAtATime]_vars

C25_Witness ==
    /\ NoCollision
    /\ Cardinality(DOMAIN uniquePodList) = 2
    /\ pc = "range"
    /\ deleteCalls = {DedupOrder(2)}
    /\ okd \cup rejected = {DedupOrder(2)}

\* the orderings of a list: seq composed with a permutation of its indexes
Orderings(evs) ==
    LET n == Len(evs)
        perms == {f \in [1..n -> 1..n] : \A i, j \in 1..n : f[i] = f[j] => i = j}
    IN  {[i \in 1..n |-> evs[f[i]]] : f \in perms}

\* C26: the candidate set does not depend on the order of the Events: every
\* ordering of the retained list gives the same name -> namespace map.
C26_OrderIndependent ==
    Generated =>
        \A other \in Orderings(found.eventList) :
            GetUniqueListOfPods(other) = uniquePodList

\* C28: every distinct Pod (namespace, name) that an Event of the iteration's
\* retained list refers to is a candidate of the iteration and gets its
\* PodChecks call in it, two Pods of one name in different namespaces included.
C28_EveryPodValidated ==
    (pc = "sleep" /\ found.resp.err = "nil") =>
        \A i \in 1..Len(found.eventList) :
            LET key == <<found.eventList[i].PodNamespace,
                         found.eventList[i].PodName>>
            IN  /\ key \in CandidateKeys
                /\ key \in okd \cup rejected

Fresh(e) == e.LastTimestamp >= found.at - pollingInterval

\* C29: the counter is 0 in the first loop pass, changes only at the end of a
\* pass and then by exactly 1, whatever happened in the pass, and the
\* staleness filter is applied exactly in the passes with counter > 0.
C29_CounterAndFilter ==
    /\ [](/\ found.resp.err = "none" => counter = 0
          /\ (Generated /\ counter = 0) => found.eventList = found.podEvents
          /\ (Generated /\ counter > 0) =>
                IsFiltered(found.eventList, found.podEvents, Fresh))
    /\ [][(counter' # counter => pc = "incr")
           /\ ((pc = "incr" /\ pc' # pc) => counter' = counter + 1)]_vars

C29_Witness ==
    /\ counter = 1
    /\ pc = "newclient"
    /\ found.at - pollingInterval > -5
    /\ \E i \in 1..Len(found.eventList) : found.eventList[i].LastTimestamp = -5
    /\ okd = {}
    /\ rejected # {}

\* C30: the first discovery pass that lists the Events successfully considers
\* every matching Event whatever its age, also when it is not pass 0 because
\* the earlier lists failed.
C30_FirstListingUnfiltered ==
    (Generated /\ ~past.listed) => found.eventList = found.podEvents

\* C31 as stated: a Pod whose DeletePod failed with an error other than
\* not-found in the pass before and that is still there is validated by
\* PodChecks in this pass.
C31_FailedDeleteReevaluated ==
    pc = "sleep" =>
        \A key \in past.failed :
            key \in DOMAIN pods => key \in okd \cup rejected

\* C31 amended: a failed DeletePod leaves the cluster as it was and the
\* candidate is not tried again in that pass; in the next pass the Pod is
\* validated again exactly if that pass's discovery makes it a candidate.
C31_FailedDeleteLeftToDiscovery ==
    /\ [](pc = "sleep" =>
            \A key \in past.failed :
                key \in okd \cup rejected <=> key \in CandidateKeys)
    /\ [][(pc = "delete" /\ pc' # pc /\ lastDelete'.err = "DeleteError") =>
            /\ pods' = pods
            /\ cur \notin todo'
            /\ pc' = "range"]_vars

C31_Witness ==
    /\ pc = "sleep"
    /\ past.failed # {}
    /\ past.failed \subseteq okd
    /\ past.failed \subseteq DOMAIN pods

\* C32: every PodChecks call decides on the Pod object the cluster holds at
\* the time of the call, which is after the iteration's grace sleep: the
\* fetched snapshot is the Pod as it is then, and ownership and health are
\* judged on it, not on what the Event or an earlier pass saw.
C32_FreshSnapshot ==
    [][CheckStep =>
          LET key == lastCheck'.key
              resp == lastCheck'.resp
              result == lastCheck'.result
          IN  /\ now >= found.at + healTime
              /\ resp.err = "NotFound" => key \notin DOMAIN pods
              /\ resp.err = "nil" =>
                    /\ key \in DOMAIN pods
                    /\ resp.item = pods[key]
                    /\ result = "NoOwner" <=> pods[key].OwnerReferences = <<>>
                    /\ result = "AlreadyHealthy" => Healthy(pods[key])
                    /\ result = "nil" => ~Healthy(pods[key])]_vars

C32_Witness ==
    /\ lastCheck.key = <<"default", "foo">>
    /\ lastCheck.result = "AlreadyHealthy"
    /\ Seen.Phase = "Running"
    /\ envSteps = 1
    /\ counter = 0

\* C33: PodChecks reports a fetched Pod eligible only if its phase is
\* Pending, Failed or Unknown, or Running with a container terminated other
\* than Completed/0; a Pod of no recognised phase is not eligible.
C33_EligibleOnlyIfUnhealthy ==
    (Fetched /\ lastCheck.result = "nil") =>
        \/ Seen.Phase \in {"Pending", "Failed", "Unknown"}
        \/ /\ Seen.Phase = "Running"
           /\ \E i \in DOMAIN Seen.ContainerStatuses :
                 BadContainer(Seen.ContainerStatuses[i])

\* C34: a Pod whose delete request is accepted carries the UID that a
\* retained matching Event of the iteration names for that namespace and name.
C34_DeletedPodIsEventPod ==
    [][(pc = "delete" /\ pc' # pc /\ lastDelete'.resp = "nil") =>
          \E i \in 1..Len(found.eventList) :
              /\ found.eventList[i].PodNamespace = lastDelete'.key[1]
              /\ found.eventList[i].PodName = lastDelete'.key[2]
              /\ found.eventList[i].UID = pods[lastDelete'.key].UID]_vars

\* C35: no Pod is deleted while Healthy: whenever DeletePod is issued for a
\* Pod that is there, the Pod is at that instant not Healthy, also when the
\* cluster changed it after its PodChecks.
C35_NotDeletedWhileHealthy ==
    [][(pc = "delete" /\ pc' # pc /\ KeyOf(cur) \in DOMAIN pods) =>
          ~Healthy(pods[KeyOf(cur)])]_vars

\* C36: dry-run and real mode decide alike: on the same observation of the
\* Pod, PodChecks gives the same outcome in both modes (eligible exactly for a
\* fetched, owned Pod that is not Healthy), and the Pods dry-run reports as
\* would-have-deleted are those accepted by PodChecks, for which real mode
\* calls DeletePod.
C36_SameDecisions ==
    Checked =>
        LET eligible == lastCheck.result = "nil" IN
        /\ eligible <=>
              (Fetched /\ Seen.OwnerReferences # <<>> /\ ~Healthy(Seen))
        /\ dryRunMode =>
              /\ logged = "WouldHaveDeleted" <=> eligible
              /\ deleteCalls = {} /\ pc # "delete"
        /\ ~dryRunMode =>
              /\ eligible <=>
                    \/ lastCheck.key \in deleteCalls
                    \/ pc = "delete" /\ KeyOf(cur) = lastCheck.key
              /\ logged # "WouldHaveDeleted"

C36_Witness ==
    /\ dryRunMode
    /\ logged = "WouldHaveDeleted"
    /\ Seen.Phase = "Running"
    /\ Seen.DeletionTimestamp = "set"
    /\ todo = {}

\* C37: the interval sleep lasts max(0, pollingInterval - healTime) seconds,
\* never a negative time, and when pollingInterval is at least healTime the
\* grace sleep and the interval sleep of an iteration add up to pollingInterval.
C37_IntervalSleep ==
    [][/\ (pc = "grace" /\ pc' = "range") => now' - now = healTime
       /\ (pc = "sleep" /\ pc' = "incr") =>
            /\ now' - now >= 0
            /\ now' - now >= pollingInterval - healTime
            /\ now' - now \in {0, pollingInterval - healTime}
            /\ pollingInterval >= healTime =>
                  healTime + (now' - now) = pollingInterval]_vars

C37_Witness ==
    /\ pc = "incr"
    /\ pollingInterval < healTime
    /\ now = found.at + healTime
    /\ deleteCalls # {}

(***************************************************************************)
(* The loop of main() when client construction succeeds and every cluster  *)
(* call returns (with a result or an error). main() is one goroutine: it   *)
(* takes its next step whenever it has one, which is weak fairness on the  *)
(* program's steps. The cluster is under no such obligation.               *)
(***************************************************************************)
InitLive ==
    /\ pods = [k \in Keys |-> IF k = <<"default", "bar">>
                                THEN RunningPod(UidOf(k))
                                ELSE PendingPod(UidOf(k), <<"ReplicaSet">>)]
    /\ events = <<MkEvent("u1", <<"default", "foo">>, eventReason, Matching, 0),
                  MkEvent("u2", <<"default", "bar">>, eventReason, Matching, 0)>>
    /\ pc = "newclient"
    /\ counter = 0
    /\ uniquePodList = EmptyMap
    /\ todo = {}
    /\ cur = ""
    /\ dryRunMode \in BOOLEAN
    /\ namespace = "default"
    /\ pollingInterval = 10
    /\ now = 0
    /\ faults = 0
    /\ envSteps = 0
    /\ HistoryInit

ProgramLive ==
    \/ NewClient
    \/ Generate
    \/ GraceSleep
    \/ CheckRejected
    \/ CheckDryRun
    \/ CheckEligible
    \/ Delete
    \/ RangeDone
    \/ IntervalSleep
    \/ Incr

NextLive == ProgramLive \/ EnvNext

SpecLive == InitLive /\ [][NextLive]_vars /\ WF_vars(ProgramLive)

\* C38: when client construction succeeds and every cluster call returns,
\* the loop does not stop by itself: the counter changes only by one, at the
\* end of an iteration that is followed by the start of the next, and it
\* eventually reaches every value up to MaxIter with a new iteration starting.
C38_LoopNeverStops ==
    /\ <>(counter = MaxIter /\ pc = "newclient")
    /\ [][counter' # counter =>
            counter' = counter + 1 /\ pc = "incr" /\ pc' = "newclient"]_vars

C38_Witness ==
    /\ counter = MaxIter
    /\ pc = "newclient"
    /\ faults > 0
    /\ lastDelete.err = "DeleteError"

====
